---- MODULE Spec2Model ----
(***************************************************************************)
(* A model of the OpenADR VEN client (openleadr/client.py): registration,  *)
(* report registration and negotiation, the poll loop, event handling,     *)
(* the report jobs and the delivery queue worker.                          *)
(*                                                                         *)
(* One step of the model is the code a coroutine runs between two awaits   *)
(* that can suspend it (asyncio runs the coroutines of one loop            *)
(* cooperatively).  Durations are whole seconds.  An optional value is a   *)
(* sequence of length 0 (Python's None) or 1.                              *)
(***************************************************************************)
EXTENDS Integers, Sequences, FiniteSets, TLC

\* ------------------------------------------------------------- bounds
\* oadrPoll exchanges of a session: the VTN answers the last of them with no
\* content, so that the poll loop does not call itself again
MaxPolls == 3
\* ticks of the report jobs, all jobs together
MaxTicks == 3
\* report requests in one reply to oadrRegisterReport
MaxRequests == 2
\* specifier payloads in one report request of the negotiation specification
MaxPayloads == 2
\* events in the list a handler of the VTN event service returns
MaxEvents == 2
\* calls of stop() in one session
MaxStops == 2
\* calls of add_report that add a report description
MaxDescriptions == 2

\* ------------------------------------------------------------- values
None == "None"
Nothing == <<>>
Some(x) == <<x>>

\* timedelta(seconds=10), the poll frequency used when the reply offers none
DefaultPollFreq == 10
\* HTTPStatus.OK as the embedded response code
OK == 200
\* timedelta(seconds=10), min_period of the sampling rate add_report gives
DefaultMinPeriod == 10
\* timedelta(hours=24), max_period of the sampling rate add_report gives
DefaultMaxPeriod == 86400

\* ------------------------------------------------------------- utils
\* find_by(list, key, value), on the list of the values the elements have for the
\* key: the index of the first element whose value is v, 0 when there is none
RECURSIVE FirstIdx(_, _, _)
FirstIdx(keys, v, i) ==
    IF i > Len(keys) THEN 0
    ELSE IF keys[i] = v THEN i
    ELSE FirstIdx(keys, v, i + 1)

find_by_r_id(report_descriptions, r_id) ==
    FirstIdx([j \in 1..Len(report_descriptions) |-> report_descriptions[j].r_id], r_id, 1)

find_by_specifier(reps, report_specifier_id) ==
    FirstIdx([j \in 1..Len(reps) |-> reps[j].report_specifier_id], report_specifier_id, 1)

find_by_request_id(reqs, report_request_id) ==
    FirstIdx([j \in 1..Len(reqs) |-> reqs[j].report_request_id], report_request_id, 1)

\* ------------------------------------------------------------- create_report
\* the sampling-rate test of create_report
InSamplingRange(rd, g) == rd.min_period <= g /\ g <= rd.max_period

\* the loop of create_report accepting an r_id whatever units are asked for
RECURSIVE CollectRIdsAnyUnits(_, _, _, _, _)
CollectRIdsAnyUnits(report, specifier, i, granularity, requested_r_ids) ==
    IF i > Len(specifier.specifier_payloads)
    THEN [error |-> None, r_ids |-> requested_r_ids, granularity |-> granularity]
    ELSE
      LET sp == specifier.specifier_payloads[i]
          k  == find_by_r_id(report.report_descriptions, sp.r_id)
          rd == report.report_descriptions[k]
          skip == CollectRIdsAnyUnits(report, specifier, i + 1, granularity,
                                      requested_r_ids)
      IN  IF k = 0 THEN skip
          ELSE IF sp.measurement # Nothing
                  /\ sp.measurement[1].item_description # rd.item_description THEN skip
          ELSE IF granularity # Nothing /\ ~InSamplingRange(rd, granularity[1]) THEN skip
          ELSE
            LET g == IF granularity # Nothing THEN granularity ELSE Some(rd.max_period)
            IN  IF specifier.report_interval
                THEN [error |-> "KeyError", r_ids |-> requested_r_ids, granularity |-> g]
                ELSE CollectRIdsAnyUnits(report, specifier, i + 1, g,
                                         Append(requested_r_ids, sp.r_id))

\* the loop of create_report over the specifier payloads, from payload i on, with
\* the granularity and the accepted r_ids so far.  A request that carries a
\* report_interval makes the first surviving payload read
\* report_specifier['dtstart'], a key the report specifier does not have.
RECURSIVE CollectRIds(_, _, _, _, _)
CollectRIds(report, specifier, i, granularity, requested_r_ids) ==
    IF i > Len(specifier.specifier_payloads)
    THEN [error |-> None, r_ids |-> requested_r_ids, granularity |-> granularity]
    ELSE
      LET sp == specifier.specifier_payloads[i]
          k  == find_by_r_id(report.report_descriptions, sp.r_id)
          rd == report.report_descriptions[k]
          skip == CollectRIds(report, specifier, i + 1, granularity, requested_r_ids)
      IN  IF k = 0 THEN skip
          ELSE IF sp.measurement # Nothing
                  /\ sp.measurement[1].item_description # rd.item_description THEN skip
          ELSE IF sp.measurement # Nothing
                  /\ sp.measurement[1].item_units # rd.item_units THEN skip
          ELSE IF granularity # Nothing /\ ~InSamplingRange(rd, granularity[1]) THEN skip
          ELSE
            LET g == IF granularity # Nothing THEN granularity ELSE Some(rd.max_period)
            IN  IF specifier.report_interval
                THEN [error |-> "KeyError", r_ids |-> requested_r_ids, granularity |-> g]
                ELSE CollectRIds(report, specifier, i + 1, g,
                                 Append(requested_r_ids, sp.r_id))

\* cron_config(granularity) and scheduler.add_job: the job added for a report request
ReportJob(report_request_id, granularity) ==
    [kind |-> "report", report_request_id |-> report_request_id, every |-> granularity]

\* create_report adding a ReportRequest for a report it does not have
create_reportUnknown(st, report_request) ==
    LET specifier == report_request.report_specifier
        n == find_by_specifier(st.reports, specifier.report_specifier_id)
        c == IF n = 0
             THEN [error |-> None, r_ids |-> <<>>, granularity |-> specifier.granularity]
             ELSE CollectRIds(st.reports[n], specifier, 1, specifier.granularity, <<>>)
    IN  IF c.error # None THEN [st |-> st, result |-> c.error]
        ELSE [st |-> [reports |-> st.reports,
                      report_requests |->
                         Append(st.report_requests,
                                [report_request_id |-> report_request.report_request_id,
                                 report_specifier_id |-> specifier.report_specifier_id,
                                 r_ids |-> c.r_ids,
                                 granularity |-> c.granularity]),
                      jobs |-> Append(st.jobs, ReportJob(report_request.report_request_id,
                                                         c.granularity))],
              result |-> "None"]

\* create_report rejecting a request of which no r_id is left
create_reportNoEmpty(st, report_request) ==
    LET specifier == report_request.report_specifier
        n == find_by_specifier(st.reports, specifier.report_specifier_id)
    IN  IF n = 0 THEN [st |-> st, result |-> "False"]
        ELSE
          LET c == CollectRIds(st.reports[n], specifier, 1, specifier.granularity, <<>>)
          IN  IF c.error # None THEN [st |-> st, result |-> c.error]
              ELSE IF c.r_ids = <<>> THEN [st |-> st, result |-> "False"]
              ELSE [st |-> [reports |-> st.reports,
                            report_requests |->
                               Append(st.report_requests,
                                      [report_request_id |-> report_request.report_request_id,
                                       report_specifier_id |-> specifier.report_specifier_id,
                                       r_ids |-> c.r_ids,
                                       granularity |-> c.granularity]),
                            jobs |-> Append(st.jobs,
                                            ReportJob(report_request.report_request_id,
                                                      c.granularity))],
                    result |-> "None"]

\* create_report(report_request) on the registry st = [reports, report_requests, jobs]:
\* the registry afterwards and what the call did ("False": the request was rejected,
\* "None": a ReportRequest was added, or the error raised)
create_report(st, report_request) ==
    LET specifier == report_request.report_specifier
        n == find_by_specifier(st.reports, specifier.report_specifier_id)
    IN  IF n = 0 THEN [st |-> st, result |-> "False"]
        ELSE
          LET c == CollectRIds(st.reports[n], specifier, 1, specifier.granularity, <<>>)
          IN  IF c.error # None THEN [st |-> st, result |-> c.error]
              ELSE [st |-> [reports |-> st.reports,
                            report_requests |->
                               Append(st.report_requests,
                                      [report_request_id |-> report_request.report_request_id,
                                       report_specifier_id |-> specifier.report_specifier_id,
                                       r_ids |-> c.r_ids,
                                       granularity |-> c.granularity]),
                            jobs |-> Append(st.jobs,
                                            ReportJob(report_request.report_request_id,
                                                      c.granularity))],
                    result |-> "None"]

\* ------------------------------------------------------------- state
VARIABLES
    ven_id,             \* self.ven_id: None or the id the VTN assigned
    poll_frequency,     \* self.poll_frequency: Nothing or Some(seconds)
    reports,            \* self.reports: the report definitions
    report_requests,    \* self.report_requests
    pending_reports,    \* self.pending_reports, the asyncio.Queue
    jobs,               \* the jobs added to self.scheduler
    scheduler_running,  \* self.scheduler.running
    report_queue_task,  \* self.report_queue_task and where the worker stands
    on_event,           \* the application's on_event handler: none, sync or async
    run_pc,             \* where run() stands
    run_error,          \* the error run() raised
    poll_pc,            \* where the innermost _poll stands
    depth,              \* the number of nested, unfinished _poll invocations
    poll_resp,          \* response_type, response_payload of the innermost _poll
    handler_result,     \* result of _on_event: what on_event returned
    reg_resp,           \* response_type, response_payload of create_party_registration
    drainPolls,         \* the oadrPoll messages of the current drain
    job_error,          \* the error the last job run raised into the scheduler
    w_payload,          \* response_payload of the worker, Nothing while unbound
    running_ticks,      \* the update_report runs between their producers and put
    sent,               \* per message type, the messages handed to the transport
    last_exchange,      \* what the last finished _perform_request gave its caller
    pollHist,           \* the reply types of the polls of the current drain
    handlerCalls,       \* the on_event calls of the current drain
    acks,               \* the oadrCreatedEvent messages of the current drain
    ticks,              \* the update_report runs started
    enqLog,             \* the reports put on the queue, in order
    sentLog,            \* the reports handed to the transport, in order
    cancel_calls,       \* the calls of cancel_report
    neg_req,            \* the report request given to create_report directly
    neg_result,         \* what that create_report call did
    session_closed,     \* self.client_session.closed
    stop_calls,         \* the calls of stop()
    stop_error,         \* the error a call of stop() raised
    add_result,         \* what the last add_report call did
    svc_req,            \* the message the VTN event service has to handle
    svc_reply           \* what its handler returned or raised

identity == <<ven_id, poll_frequency>>
registry == <<reports, report_requests, jobs>>
queueVars == <<pending_reports, report_queue_task, w_payload, running_ticks>>
runVars == <<run_pc, run_error>>
pollVars == <<poll_pc, depth, poll_resp, handler_result, drainPolls, pollHist, handlerCalls,
              acks>>
logVars == <<ticks, enqLog, sentLog, cancel_calls>>
negVars == <<neg_req, neg_result>>
stopVars == <<session_closed, stop_calls, stop_error>>
svcVars == <<svc_req, svc_reply>>
vars == <<ven_id, poll_frequency, reports, report_requests, pending_reports, jobs,
          scheduler_running, report_queue_task, on_event, run_pc, run_error, poll_pc,
          depth, poll_resp, handler_result, reg_resp, drainPolls, job_error, w_payload, running_ticks, sent, last_exchange,
          pollHist, handlerCalls, acks, ticks, enqLog, sentLog, cancel_calls,
          neg_req, neg_result, session_closed, stop_calls, stop_error, add_result, svc_req, svc_reply>>

MsgTypes == {"oadrCreatePartyRegistration", "oadrRegisterReport", "oadrPoll",
             "oadrCreatedEvent", "oadrUpdateReport"}

\* ------------------------------------------------------------- the inputs
\* the report definitions add_report built before run(): one report with two
\* report descriptions
Description(r_id, lo, hi, description, units) ==
    [r_id |-> r_id, min_period |-> lo, max_period |-> hi,
     item_description |-> description, item_units |-> units]

ReportS1(d1, d2) ==
    [report_name |-> "TELEMETRY_USAGE", report_specifier_id |-> "S1",
     report_descriptions |-> <<d1, d2>>]

ReportsA == <<ReportS1(Description("R1", 1, 60, "power", "W"),
                       Description("R2", 30, 3600, "power", "kW"))>>
ReportsB == <<ReportS1(Description("R1", 10, 10, "power", "W"),
                       Description("R2", 1, 60, "power", "kW"))>>

Request(id, specifier_id, granularity, interval, payloads) ==
    [report_request_id |-> id,
     report_specifier |-> [report_specifier_id |-> specifier_id,
                           granularity |-> granularity,
                           report_interval |-> interval,
                           specifier_payloads |-> payloads]]

SpecifierPayload(r_id, measurement) == [r_id |-> r_id, measurement |-> measurement]

Measurements == {Nothing,
                 Some([item_description |-> "power", item_units |-> "W"]),
                 Some([item_description |-> "power", item_units |-> "kW"]),
                 Some([item_description |-> "voltage", item_units |-> "W"])}

Granularities == {Nothing, Some(10), Some(45), Some(5000)}

SeqsUpTo(S, n) == UNION {[1..k -> S] : k \in 0..n}

\* the report requests of the negotiation specification
NegRequests ==
    {Request(id, sid, g, iv, ps) :
        id \in {"rr1"}, sid \in {"S1", "S9"}, g \in Granularities, iv \in BOOLEAN,
        ps \in SeqsUpTo({SpecifierPayload(r, m) : r \in {"R1", "R2", "R9"},
                                                 m \in Measurements}, MaxPayloads)}

\* the report requests a reply to oadrRegisterReport carries in the session
SessionRequests ==
    {Request("rr1", "S1", Some(45), FALSE,
             <<SpecifierPayload("R1", Nothing), SpecifierPayload("R2", Nothing)>>),
     Request("rr2", "S1", Nothing, FALSE,
             <<SpecifierPayload("R2", Nothing), SpecifierPayload("R1", Nothing)>>),
     Request("rr2", "S1", Some(45), TRUE, <<SpecifierPayload("R1", Nothing)>>)}

\* what the transport can do with one exchange
Outcomes == {"ok", "non200", "noconnect", "malformed", "error"}
Unreachable == {"non200", "noconnect"}

EmptyPayload == [keys |-> {}]

\* the poll frequencies the VTN offers (Nothing: the reply names none)
PollFreqs == {Nothing, Some(86400), Some(90000)}

\* the replies of the VTN to oadrCreatePartyRegistration
RegReplies ==
    {[type |-> "oadrCreatedPartyRegistration",
      payload |-> [keys |-> {"response", "ven_id"} \cup
                            (IF f = Nothing THEN {} ELSE {"requested_oadr_poll_freq"}),
                   response_code |-> c, ven_id |-> v, requested_oadr_poll_freq |-> f]] :
        c \in {OK, 403}, v \in {"ven1", "ven2"}, f \in PollFreqs}

\* the replies of the VTN to oadrRegisterReport: with no report request at all,
\* or with the report requests rs
RegisteredReport(rs) ==
    [type |-> "oadrRegisteredReport",
     payload |-> [keys |-> {"report_requests"}, report_requests |-> rs]]

RegisterReportReplies ==
    {[type |-> "oadrRegisteredReport", payload |-> EmptyPayload]}
    \cup {RegisteredReport(<<r>>) : r \in SessionRequests}

\* the replies with up to MaxRequests report requests, no request twice
DeliverRegisterReportReplies ==
    {RegisteredReport(rs) :
        rs \in {s \in SeqsUpTo(SessionRequests, MaxRequests) :
                   \A i, j \in 1..Len(s) : s[i] = s[j] => i = j}}

\* the replies of the VTN to oadrPoll
PollReplies ==
    {[type |-> t, payload |-> EmptyPayload] :
        t \in {"oadrResponse", "oadrRequestReregistration", "oadrCancelReport"}}
    \cup
    {[type |-> "oadrUpdateReport", payload |-> [keys |-> {"cancel_report"}]]}
    \cup
    {[type |-> "oadrDistributeEvent",
      payload |-> [keys |-> {"request_id", "events"}, request_id |-> e[1], events |-> e[2]]] :
        e \in {<<"q1", <<>> >>, <<"q1", <<"e1">> >>, <<"q2", <<"e2", "e1">> >>}}

DeliverRegReplies ==
    {r \in RegReplies : r.payload.ven_id = "ven1" /\ r.payload.requested_oadr_poll_freq = Nothing}

DeliverPollReplies ==
    {r \in PollReplies : \/ r.type = "oadrResponse"
                         \/ r.type = "oadrDistributeEvent" /\ r.payload.events = <<"e1">>}

\* the replies of the VTN to oadrCreatedEvent
AckReplies == {[type |-> "oadrResponse", payload |-> EmptyPayload]}

\* the replies of the VTN to oadrUpdateReport
UpdateReplies ==
    {[type |-> "oadrUpdatedReport", payload |-> EmptyPayload],
     [type |-> "oadrUpdatedReport", payload |-> [keys |-> {"cancel_report"}]]}

OptTypes == {"optIn", "optOut"}

\* ------------------------------------------------------------- _perform_request
\* _perform_request raising on a status other than 200
PerformRequestRaising(outcome, reply) ==
    IF outcome = "noconnect"
    THEN [raised |-> None, response_type |-> None, response_payload |-> EmptyPayload]
    ELSE IF outcome = "non200"
    THEN [raised |-> "HTTPError", response_type |-> None, response_payload |-> EmptyPayload]
    ELSE IF outcome \in {"malformed", "error"}
    THEN [raised |-> "ParseError", response_type |-> None, response_payload |-> EmptyPayload]
    ELSE [raised |-> None, response_type |-> reply.type, response_payload |-> reply.payload]

\* _perform_request returning (None, {}) for a reply it cannot parse
PerformRequestSwallowing(outcome, reply) ==
    IF outcome \in {"non200", "noconnect", "malformed"}
    THEN [raised |-> None, response_type |-> None, response_payload |-> EmptyPayload]
    ELSE IF outcome = "error"
    THEN [raised |-> "Error", response_type |-> None, response_payload |-> EmptyPayload]
    ELSE [raised |-> None, response_type |-> reply.type, response_payload |-> reply.payload]

\* _perform_request(service, message) for one outcome of the transport and the
\* reply the VTN gave: what the caller gets.  A status other than 200 and a
\* ClientConnectorError return (None, {}); a reply that cannot be parsed or
\* verified raises; any other exception of the post stops at breakpoint() and
\* then raises, content being unbound.
PerformRequest(outcome, reply) ==
    IF outcome \in {"non200", "noconnect"}
    THEN [raised |-> None, response_type |-> None, response_payload |-> EmptyPayload]
    ELSE IF outcome = "malformed"
    THEN [raised |-> "ParseError", response_type |-> None, response_payload |-> EmptyPayload]
    ELSE IF outcome = "error"
    THEN [raised |-> "Error", response_type |-> None, response_payload |-> EmptyPayload]
    ELSE [raised |-> None, response_type |-> reply.type, response_payload |-> reply.payload]

\* the record of a finished exchange
Exchanged(op, outcome, res) ==
    last_exchange' = [op |-> op, outcome |-> outcome, raised |-> res.raised,
                      response_type |-> res.response_type, n |-> last_exchange.n + 1]

Send(type) == sent' = [sent EXCEPT ![type] = @ + 1]

\* ------------------------------------------------------------- registration
\* create_party_registration storing the ven_id of a reply whatever its code
RegisteredIgnoringCode(res, id, freq) ==
    IF res.response_type = None
    THEN [ven_id |-> id, poll_frequency |-> freq]
    ELSE [ven_id |-> res.response_payload.ven_id,
          poll_frequency |->
              IF res.response_payload.response_code # OK THEN freq
              ELSE IF "requested_oadr_poll_freq" \in res.response_payload.keys
              THEN res.response_payload.requested_oadr_poll_freq
              ELSE Some(DefaultPollFreq)]

\* create_party_registration keeping the poll frequency of a registration before
RegisteredKeepingFreq(res, id, freq) ==
    IF res.response_type = None
    THEN [ven_id |-> id, poll_frequency |-> freq]
    ELSE IF res.response_payload.response_code # OK
    THEN [ven_id |-> id, poll_frequency |-> freq]
    ELSE [ven_id |-> res.response_payload.ven_id,
          poll_frequency |->
              IF freq # Nothing THEN freq
              ELSE IF "requested_oadr_poll_freq" \in res.response_payload.keys
              THEN res.response_payload.requested_oadr_poll_freq
              ELSE Some(DefaultPollFreq)]

\* create_party_registration after its exchange: the identity it leaves
Registered(res, id, freq) ==
    IF res.response_type = None
    THEN [ven_id |-> id, poll_frequency |-> freq]
    ELSE IF res.response_payload.response_code # OK
    THEN [ven_id |-> id, poll_frequency |-> freq]
    ELSE [ven_id |-> res.response_payload.ven_id,
          poll_frequency |->
              IF "requested_oadr_poll_freq" \in res.response_payload.keys
              THEN res.response_payload.requested_oadr_poll_freq
              ELSE Some(DefaultPollFreq)]

\* ------------------------------------------------------------- run
\* the first _poll of a drain: the poll message is sent and the reply awaited
BeginDrain ==
    /\ poll_pc' = "poll_wait"
    /\ depth' = 1
    /\ poll_resp' = Nothing
    /\ handler_result' = Nothing
    /\ drainPolls' = 1
    /\ pollHist' = <<>>
    /\ handlerCalls' = 0
    /\ acks' = <<>>

\* run() up to its first await: the registration message is sent
RunStart ==
    /\ run_pc = "init"
    /\ run_pc' = "register"
    /\ Send("oadrCreatePartyRegistration")
    /\ UNCHANGED <<identity, registry, queueVars, scheduler_running, on_event, run_error,
                   pollVars, reg_resp, job_error, last_exchange, logVars, negVars, stopVars, svcVars, add_result>>

\* run() from the reply to the registration to its next await
RunRegistered(o, reply) ==
    /\ run_pc = "register"
    /\ LET res == PerformRequest(o, reply)
           id  == Registered(res, ven_id, poll_frequency)
       IN  /\ Exchanged("register", o, res)
           /\ reg_resp' = Some([response_type |-> res.response_type,
                                response_payload |-> res.response_payload])
           /\ IF res.raised # None
              THEN /\ run_pc' = "failed"
                   /\ run_error' = res.raised
                   /\ UNCHANGED <<identity, sent, pollVars>>
              ELSE /\ ven_id' = id.ven_id
                   /\ poll_frequency' = id.poll_frequency
                   /\ run_error' = run_error
                   /\ IF id.ven_id = None
                      THEN run_pc' = "aborted" /\ UNCHANGED <<sent, pollVars>>
                      ELSE IF reports # <<>>
                      THEN /\ run_pc' = "regreports"
                           /\ Send("oadrRegisterReport")
                           /\ UNCHANGED pollVars
                      ELSE /\ run_pc' = "poll"
                           /\ Send("oadrPoll")
                           /\ BeginDrain
    /\ UNCHANGED <<registry, queueVars, scheduler_running, on_event, job_error,
                   logVars, negVars, stopVars, svcVars, add_result>>

\* the loop of register_reports over the report requests of the reply
RECURSIVE CreateReports(_, _, _)
CreateReports(st, requests, i) ==
    IF i > Len(requests) THEN [st |-> st, error |-> None]
    ELSE LET r == create_report(st, requests[i])
         IN  IF r.result \in {"None", "False"}
             THEN CreateReports(r.st, requests, i + 1)
             ELSE [st |-> r.st, error |-> r.result]

\* register_reports after its exchange
RegisteredReports(res, st) ==
    IF "report_requests" \in res.response_payload.keys
    THEN CreateReports(st, res.response_payload.report_requests, 1)
    ELSE [st |-> st, error |-> None]

\* run() from the reply to oadrRegisterReport to its next await: the report
\* requests are created, the queue worker is started and the first poll is sent
RunReportsRegistered(o, reply) ==
    /\ run_pc = "regreports"
    /\ LET res == PerformRequest(o, reply)
           rr  == RegisteredReports(res, [reports |-> reports,
                                          report_requests |-> report_requests,
                                          jobs |-> jobs])
       IN  /\ Exchanged("register_reports", o, res)
           /\ IF res.raised # None
              THEN /\ run_pc' = "failed"
                   /\ run_error' = res.raised
                   /\ UNCHANGED <<registry, report_queue_task, sent, pollVars>>
              ELSE /\ report_requests' = rr.st.report_requests
                   /\ jobs' = rr.st.jobs
                   /\ reports' = reports
                   /\ IF rr.error # None
                      THEN /\ run_pc' = "failed"
                           /\ run_error' = rr.error
                           /\ UNCHANGED <<report_queue_task, sent, pollVars>>
                      ELSE /\ run_pc' = "poll"
                           /\ run_error' = run_error
                           /\ report_queue_task' = "waiting"
                           /\ Send("oadrPoll")
                           /\ BeginDrain
    /\ UNCHANGED <<identity, pending_reports, w_payload, running_ticks, scheduler_running,
                   on_event, reg_resp, job_error, logVars, negVars, stopVars, svcVars, add_result>>

\* the recurring poll job run() adds for a poll frequency of f seconds; the
\* second of the minute is drawn at random and not kept
PollJob(f) ==
    IF f < 60 THEN [kind |-> "poll", second |-> <<"/", f>>, minute |-> "*", hour |-> "*"]
    ELSE IF f < 3600
    THEN [kind |-> "poll", second |-> "randint", minute |-> <<"*/", f \div 60>>, hour |-> "*"]
    ELSE [kind |-> "poll", second |-> "randint", minute |-> "0",
          hour |-> <<"*/", f \div 3600>>]

\* run() after its first _poll returned: [run_pc, error, job, start]
SchedulePoll(f) ==
    IF f < 86400
    THEN [run_pc |-> "done", error |-> None, job |-> Some(PollJob(f)), start |-> TRUE]
    ELSE IF f > 86400
    THEN [run_pc |-> "done", error |-> None, job |-> Nothing, start |-> FALSE]
    ELSE [run_pc |-> "failed", error |-> "UnboundLocalError", job |-> Nothing,
          start |-> FALSE]

\* ------------------------------------------------------------- _poll
\* a step of the poll loop decides how the loop goes on:
\*   next = "end"     the outermost _poll returns, or raises err
\*          "handler" the asynchronous on_event is awaited
\*          "ack"     oadrCreatedEvent is sent with ack and its reply awaited
\*          "rereg"   the registration is sent again and its reply awaited
\*          "again"   _poll calls itself: the next poll is sent
\* calls counts the calls of on_event the step made
Go(next, err, ack, calls) == [next |-> next, err |-> err, ack |-> ack, calls |-> calls]

\* _on_event after on_event gave its result: the created_event message
OnEventResult(message, result, calls) ==
    IF message.events = <<>>
    THEN Go("end", "IndexError", Nothing, calls)
    ELSE Go("ack", None, Some([request_id |-> message.request_id,
                               event_id |-> message.events[1],
                               opt_type |-> result]), calls)

\* _on_event(message) up to its first await
OnEvent(message, handler, result) ==
    IF handler = "none" THEN Go("end", "AttributeError", Nothing, 0)
    ELSE IF handler = "async" THEN Go("handler", None, Nothing, 1)
    ELSE OnEventResult(message, result, 1)

\* _poll polling again after oadrResponse
DispatchNoStop(res, handler, result) ==
    IF res.raised # None THEN Go("end", res.raised, Nothing, 0)
    ELSE IF res.response_type = None THEN Go("end", None, Nothing, 0)
    ELSE IF res.response_type = "oadrRequestReregistration"
    THEN Go("rereg", None, Nothing, 0)
    ELSE IF res.response_type = "oadrDistributeEvent"
    THEN OnEvent(res.response_payload, handler, result)
    ELSE IF res.response_type = "oadrUpdateReport"
    THEN Go("end", "AttributeError", Nothing, 0)
    ELSE Go("again", None, Nothing, 0)

\* _poll raising on a message type it has no handler for
DispatchUnknownRaises(res, handler, result) ==
    IF res.raised # None THEN Go("end", res.raised, Nothing, 0)
    ELSE IF res.response_type = None THEN Go("end", None, Nothing, 0)
    ELSE IF res.response_type = "oadrResponse" THEN Go("end", None, Nothing, 0)
    ELSE IF res.response_type = "oadrRequestReregistration"
    THEN Go("rereg", None, Nothing, 0)
    ELSE IF res.response_type = "oadrDistributeEvent"
    THEN OnEvent(res.response_payload, handler, result)
    ELSE Go("end", "AttributeError", Nothing, 0)

\* _poll after the reply to its poll
Dispatch(res, handler, result) ==
    IF res.raised # None THEN Go("end", res.raised, Nothing, 0)
    ELSE IF res.response_type = None THEN Go("end", None, Nothing, 0)
    ELSE IF res.response_type = "oadrResponse" THEN Go("end", None, Nothing, 0)
    ELSE IF res.response_type = "oadrRequestReregistration"
    THEN Go("rereg", None, Nothing, 0)
    ELSE IF res.response_type = "oadrDistributeEvent"
    THEN OnEvent(res.response_payload, handler, result)
    ELSE IF res.response_type = "oadrUpdateReport"
    THEN Go("end", "AttributeError", Nothing, 0)
    ELSE Go("again", None, Nothing, 0)

\* the outermost _poll has returned or raised err: run() goes on with the
\* recurring poll job when it made the call, the scheduler logs the error when
\* the job made it
EndOfDrain(err) ==
    IF run_pc = "poll"
    THEN IF err # None
         THEN /\ run_pc' = "failed"
              /\ run_error' = err
              /\ UNCHANGED <<jobs, scheduler_running, job_error>>
         ELSE LET s == SchedulePoll(poll_frequency[1])
              IN  /\ run_pc' = s.run_pc
                  /\ run_error' = s.error
                  /\ jobs' = IF s.job = Nothing THEN jobs ELSE Append(jobs, s.job[1])
                  /\ scheduler_running' = (scheduler_running \/ s.start)
                  /\ job_error' = job_error
    ELSE /\ job_error' = err
         /\ UNCHANGED <<run_pc, run_error, jobs, scheduler_running>>

\* the poll loop goes on as d says
Continue(d) ==
    IF d.next = "end"
    THEN /\ poll_pc' = "idle"
         /\ depth' = 0
         /\ EndOfDrain(d.err)
         /\ UNCHANGED <<acks, sent, drainPolls>>
    ELSE /\ UNCHANGED <<run_pc, run_error, jobs, scheduler_running, job_error>>
         /\ IF d.next = "handler"
            THEN poll_pc' = "handler_wait" /\ UNCHANGED <<depth, acks, sent, drainPolls>>
            ELSE IF d.next = "ack"
            THEN /\ poll_pc' = "ack_wait"
                 /\ acks' = Append(acks, d.ack[1])
                 /\ Send("oadrCreatedEvent")
                 /\ UNCHANGED <<depth, drainPolls>>
            ELSE IF d.next = "rereg"
            THEN /\ poll_pc' = "rereg_wait"
                 /\ Send("oadrCreatePartyRegistration")
                 /\ UNCHANGED <<depth, acks, drainPolls>>
            ELSE /\ poll_pc' = "poll_wait"
                 /\ depth' = depth + 1
                 /\ drainPolls' = drainPolls + 1
                 /\ Send("oadrPoll")
                 /\ acks' = acks

\* _poll from the reply to its poll to the next await
PollReply(o, reply, result) ==
    /\ poll_pc = "poll_wait"
    /\ LET res == PerformRequest(o, reply)
           d   == Dispatch(res, on_event, result)
       IN  /\ d.next # "end" => sent["oadrPoll"] < MaxPolls
           /\ Exchanged("poll", o, res)
           /\ poll_resp' = Some([response_type |-> res.response_type,
                                 response_payload |-> res.response_payload])
           /\ pollHist' = IF res.raised = None /\ res.response_type # None
                          THEN Append(pollHist, res.response_type) ELSE pollHist
           /\ handlerCalls' = handlerCalls + d.calls
           /\ handler_result' = IF d.calls > 0 /\ on_event = "sync"
                                THEN Some(result) ELSE Nothing
           /\ Continue(d)
    /\ UNCHANGED <<identity, reports, report_requests, queueVars, on_event, reg_resp,
                   logVars, negVars, stopVars, svcVars, add_result>>

\* _on_event from the result of the awaited on_event to the next await
HandlerDone(result) ==
    /\ poll_pc = "handler_wait"
    /\ handler_result' = Some(result)
    /\ Continue(OnEventResult(poll_resp[1].response_payload, result, 0))
    /\ UNCHANGED <<identity, reports, report_requests, queueVars, on_event, poll_resp,
                   reg_resp, pollHist, handlerCalls, last_exchange, logVars, negVars, stopVars, svcVars, add_result>>

\* created_event and _on_event return after the reply to oadrCreatedEvent, and
\* _poll calls itself
AckReply(o, reply) ==
    /\ poll_pc = "ack_wait"
    /\ LET res == PerformRequest(o, reply)
       IN  /\ Exchanged("created_event", o, res)
           /\ Continue(IF res.raised # None THEN Go("end", res.raised, Nothing, 0)
                       ELSE Go("again", None, Nothing, 0))
    /\ UNCHANGED <<identity, reports, report_requests, queueVars, on_event, poll_resp,
                   handler_result, reg_resp, pollHist, handlerCalls, logVars, negVars, stopVars, svcVars, add_result>>

\* create_party_registration called by _poll returns after its reply, and _poll
\* calls itself
ReregReply(o, reply) ==
    /\ poll_pc = "rereg_wait"
    /\ LET res == PerformRequest(o, reply)
           id  == Registered(res, ven_id, poll_frequency)
       IN  /\ Exchanged("register", o, res)
           /\ reg_resp' = Some([response_type |-> res.response_type,
                                response_payload |-> res.response_payload])
           /\ IF res.raised # None
              THEN /\ UNCHANGED identity
                   /\ Continue(Go("end", res.raised, Nothing, 0))
              ELSE /\ ven_id' = id.ven_id
                   /\ poll_frequency' = id.poll_frequency
                   /\ Continue(Go("again", None, Nothing, 0))
    /\ UNCHANGED <<reports, report_requests, queueVars, on_event, poll_resp, handler_result,
                   pollHist, handlerCalls, logVars, negVars, stopVars, svcVars, add_result>>

\* the scheduler runs the recurring poll job: _poll up to its first await
PollTick ==
    /\ scheduler_running
    /\ \E j \in 1..Len(jobs) : jobs[j].kind = "poll"
    /\ poll_pc = "idle"
    /\ sent["oadrPoll"] < MaxPolls
    /\ Send("oadrPoll")
    /\ BeginDrain
    /\ UNCHANGED <<identity, registry, queueVars, scheduler_running, on_event, runVars,
                   reg_resp, job_error, last_exchange, logVars, negVars, stopVars, svcVars, add_result>>

\* ------------------------------------------------------------- update_report
\* a queue that takes every item twice
QueuePutTwice(q, x) == Append(Append(q, x), x)

\* asyncio.Queue: put at the end, get from the front
QueuePut(q, x) == Append(q, x)

\* a queue that gives its newest item first
QueueGetLast(q) == [item |-> q[Len(q)], rest |-> SubSeq(q, 1, Len(q) - 1)]

QueueGet(q) == [item |-> Head(q), rest |-> Tail(q)]

\* the Report update_report builds at time now for a report request id: the
\* first report request with that id, its report, one interval per accepted r_id
UpdateReport(report_request_id, now) ==
    LET rr     == report_requests[find_by_request_id(report_requests, report_request_id)]
        report == reports[find_by_specifier(reports, rr.report_specifier_id)]
    IN  [report_request_id |-> report_request_id,
         report_specifier_id |-> report.report_specifier_id,
         report_name |-> report.report_name,
         intervals |-> [i \in 1..Len(rr.r_ids) |-> [r_id |-> rr.r_ids[i], dtstart |-> now]],
         created |-> now]

\* the scheduler runs report job j: update_report calls the producers of the
\* accepted r_ids; the producer at index failing raises (0: none does), which
\* ends the run with that error
TickStart(j, failing) ==
    /\ scheduler_running
    /\ jobs[j].kind = "report"
    /\ \A t \in running_ticks : t.job # j
    /\ ticks < MaxTicks
    /\ ticks' = ticks + 1
    /\ LET rep == UpdateReport(jobs[j].report_request_id, ticks + 1)
       IN  /\ failing <= Len(rep.intervals)
           /\ IF failing = 0
              THEN /\ running_ticks' = running_ticks \cup {[job |-> j, report |-> rep]}
                   /\ job_error' = job_error
              ELSE /\ running_ticks' = running_ticks
                   /\ job_error' = "ProducerError"
    /\ UNCHANGED <<identity, registry, pending_reports, report_queue_task, w_payload,
                   scheduler_running, on_event, runVars, pollVars, reg_resp, sent, last_exchange,
                   enqLog, sentLog, cancel_calls, negVars, stopVars, svcVars, add_result>>

\* update_report puts its report on the queue
TickPut(t) ==
    /\ t \in running_ticks
    /\ running_ticks' = running_ticks \ {t}
    /\ pending_reports' = QueuePut(pending_reports, t.report)
    /\ enqLog' = Append(enqLog, t.report)
    /\ UNCHANGED <<identity, registry, report_queue_task, w_payload, scheduler_running,
                   on_event, runVars, pollVars, reg_resp, job_error, sent, last_exchange,
                   ticks, sentLog, cancel_calls, negVars, stopVars, svcVars, add_result>>

\* ------------------------------------------------------------- _report_queue_worker
\* the worker takes the next report from the queue and sends oadrUpdateReport
WorkerGet ==
    /\ report_queue_task = "waiting"
    /\ pending_reports # <<>>
    /\ LET g == QueueGet(pending_reports)
       IN  /\ pending_reports' = g.rest
           /\ sentLog' = Append(sentLog, g.item)
    /\ report_queue_task' = "sending"
    /\ Send("oadrUpdateReport")
    /\ UNCHANGED <<identity, registry, w_payload, running_ticks, scheduler_running,
                   on_event, runVars, pollVars, reg_resp, job_error, last_exchange, ticks,
                   enqLog, cancel_calls, negVars, stopVars, svcVars, add_result>>

\* a worker that returns when a delivery did not reach the VTN
DeliveredGivingUp(res, payload, resumes) ==
    LET p == IF res.raised = None THEN Some(res.response_payload) ELSE payload
    IN  IF res.raised # None /\ (~resumes \/ payload = Nothing)
        THEN [task |-> "failed", payload |-> payload, cancels |-> 0]
        ELSE IF res.raised = None /\ res.response_type = None
        THEN [task |-> "done", payload |-> p, cancels |-> 0]
        ELSE [task |-> "waiting", payload |-> p,
              cancels |-> IF "cancel_report" \in p[1].keys THEN 1 ELSE 0]

\* the worker after the exchange: [task, payload, cancels].  When
\* _perform_request raised, the worker stops at breakpoint(); the debugger
\* either raises (resumes = FALSE) or lets the worker go on with the
\* response_payload of the delivery before, which is unbound in the first.
Delivered(res, payload, resumes) ==
    LET p == IF res.raised = None THEN Some(res.response_payload) ELSE payload
    IN  IF res.raised # None /\ (~resumes \/ payload = Nothing)
        THEN [task |-> "failed", payload |-> payload, cancels |-> 0]
        ELSE [task |-> "waiting", payload |-> p,
              cancels |-> IF "cancel_report" \in p[1].keys THEN 1 ELSE 0]

\* a worker that puts a report back on the queue when the VTN was not reached
WorkerReplyRequeue(o, reply, resumes) ==
    /\ report_queue_task = "sending"
    /\ LET res == PerformRequest(o, reply)
           d   == Delivered(res, w_payload, resumes)
       IN  /\ Exchanged("update_report", o, res)
           /\ report_queue_task' = d.task
           /\ w_payload' = d.payload
           /\ cancel_calls' = cancel_calls + d.cancels
           /\ pending_reports' = IF o \in Unreachable
                                 THEN QueuePut(pending_reports, sentLog[Len(sentLog)])
                                 ELSE pending_reports
    /\ UNCHANGED <<identity, registry, running_ticks, scheduler_running,
                   on_event, runVars, pollVars, reg_resp, job_error, sent, ticks, enqLog,
                   sentLog, negVars, stopVars, svcVars, add_result>>

\* a worker whose cancel_report drops the report request and the job of the
\* report it delivered
WorkerReplyCancelling(o, reply, resumes) ==
    /\ report_queue_task = "sending"
    /\ LET res == PerformRequest(o, reply)
           d   == Delivered(res, w_payload, resumes)
           id  == sentLog[Len(sentLog)].report_request_id
           OtherRequest(r) == r.report_request_id # id
           OtherJob(j) == j.kind # "report" \/ j.report_request_id # id
       IN  /\ Exchanged("update_report", o, res)
           /\ report_queue_task' = d.task
           /\ w_payload' = d.payload
           /\ cancel_calls' = cancel_calls + d.cancels
           /\ report_requests' = IF d.cancels > 0
                                 THEN SelectSeq(report_requests, OtherRequest)
                                 ELSE report_requests
           /\ jobs' = IF d.cancels > 0 THEN SelectSeq(jobs, OtherJob) ELSE jobs
    /\ UNCHANGED <<identity, reports, pending_reports, running_ticks, scheduler_running,
                   on_event, runVars, pollVars, reg_resp, job_error, sent, ticks, enqLog,
                   sentLog, negVars, stopVars, svcVars, add_result>>

\* the worker from the reply to oadrUpdateReport to its next queue.get
WorkerReply(o, reply, resumes) ==
    /\ report_queue_task = "sending"
    /\ LET res == PerformRequest(o, reply)
           d   == Delivered(res, w_payload, resumes)
       IN  /\ Exchanged("update_report", o, res)
           /\ report_queue_task' = d.task
           /\ w_payload' = d.payload
           /\ cancel_calls' = cancel_calls + d.cancels
    /\ UNCHANGED <<identity, registry, pending_reports, running_ticks, scheduler_running,
                   on_event, runVars, pollVars, reg_resp, job_error, sent, ticks, enqLog,
                   sentLog, negVars, stopVars, svcVars, add_result>>

\* ------------------------------------------------------------- add_report
\* the sampling_rate argument: None, a timedelta, or an objects.SamplingRate
SamplingRateArgs ==
    {[kind |-> "None", min_period |-> 0, max_period |-> 0]}
    \cup {[kind |-> "timedelta", min_period |-> t, max_period |-> t] : t \in {10, 60}}
    \cup {[kind |-> "SamplingRate", min_period |-> lo, max_period |-> hi] :
              lo \in {10, 60}, hi \in {10, 60}}

\* the measurement argument, as the Measurement it stands for
MeasurementArgs == {[item_description |-> "power", item_units |-> "W"],
                    [item_description |-> "voltage", item_units |-> "V"]}

\* the report_specifier_id argument
SpecifierArgs == {Nothing, Some("S1"), Some("S2")}

\* the sampling rate add_report stores for its sampling_rate argument
SamplingRateOf(sampling_rate) ==
    IF sampling_rate.kind = "None"
    THEN [min_period |-> DefaultMinPeriod, max_period |-> DefaultMaxPeriod]
    ELSE [min_period |-> sampling_rate.min_period, max_period |-> sampling_rate.max_period]

\* the report descriptions of all reports together
RECURSIVE Descriptions(_, _)
Descriptions(reps, i) ==
    IF i > Len(reps) THEN 0
    ELSE Len(reps[i].report_descriptions) + Descriptions(reps, i + 1)

\* generate_id(): an id no report and no report description has yet
generate_id(reps, k) == "id" \o ToString(Len(reps) + Descriptions(reps, 1) + k)

\* the report add_report finds: by report_name and report_specifier_id, or by
\* report_name alone when no id is given; every report here has the one name
FindReport(reps, report_specifier_id) ==
    IF report_specifier_id = Nothing THEN (IF reps = <<>> THEN 0 ELSE 1)
    ELSE find_by_specifier(reps, report_specifier_id[1])

\* add_report(...) on the reports reps; valid: the names and the scale pass the
\* checks of the arguments.  The reports afterwards and the error raised.
add_report(reps, valid, report_specifier_id, measurement, sampling_rate) ==
    IF ~valid THEN [reports |-> reps, error |-> "ValueError"]
    ELSE
      LET rate == SamplingRateOf(sampling_rate)
          n    == FindReport(reps, report_specifier_id)
          id   == IF report_specifier_id = Nothing THEN generate_id(reps, 1)
                  ELSE report_specifier_id[1]
          with == IF n # 0 THEN reps
                  ELSE Append(reps, [report_name |-> "TELEMETRY_USAGE",
                                     report_specifier_id |-> id,
                                     report_descriptions |-> <<>>])
          m    == IF n # 0 THEN n ELSE Len(with)
          rd   == Description(generate_id(reps, 2), rate.min_period, rate.max_period,
                              measurement.item_description, measurement.item_units)
      IN  [reports |-> [with EXCEPT ![m].report_descriptions = Append(@, rd)],
           error |-> None]

\* the application calls add_report before run()
AddReport(valid, report_specifier_id, measurement, sampling_rate) ==
    /\ run_pc = "init"
    /\ Descriptions(reports, 1) < MaxDescriptions
    /\ LET r == add_report(reports, valid, report_specifier_id, measurement, sampling_rate)
       IN  /\ reports' = r.reports
           /\ add_result' = IF r.error = None THEN "None" ELSE r.error
    /\ UNCHANGED <<identity, report_requests, jobs, queueVars, scheduler_running, on_event,
                   runVars, pollVars, reg_resp, job_error, sent, last_exchange, logVars,
                   negVars, stopVars, svcVars>>

\* ------------------------------------------------------------- stop
\* scheduler.shutdown(): APScheduler raises when the scheduler is not running
SchedulerShutdown(running) ==
    [running |-> FALSE, error |-> IF running THEN None ELSE "SchedulerNotRunningError"]

\* task.cancel(): a task that waits or sends is cancelled, a finished one is left
TaskCancel(task) ==
    [task |-> IF task \in {"waiting", "sending"} THEN "cancelled" ELSE task,
     error |-> IF task = None THEN "AttributeError" ELSE None]

\* stop() shutting the scheduler down without asking whether it runs
stopUnguarded(running, task) ==
    LET sh == SchedulerShutdown(running)
        ca == IF task # None THEN TaskCancel(task) ELSE [task |-> task, error |-> None]
    IN  IF sh.error # None
        THEN [running |-> running, task |-> task, closed |-> FALSE, error |-> sh.error]
        ELSE [running |-> sh.running, task |-> ca.task, closed |-> TRUE, error |-> ca.error]

\* stop() for a scheduler that runs or not and a report_queue_task: what it
\* leaves, closed being whether it reached client_session.close()
stop(running, task) ==
    LET sh == IF running THEN SchedulerShutdown(running)
              ELSE [running |-> running, error |-> None]
        ca == IF task # None THEN TaskCancel(task) ELSE [task |-> task, error |-> None]
    IN  IF sh.error # None
        THEN [running |-> running, task |-> task, closed |-> FALSE, error |-> sh.error]
        ELSE IF ca.error # None
        THEN [running |-> sh.running, task |-> task, closed |-> FALSE, error |-> ca.error]
        ELSE [running |-> sh.running, task |-> ca.task, closed |-> TRUE, error |-> None]

\* the application calls stop() while run() is not under way
Stop ==
    /\ run_pc \in {"init", "aborted", "done", "failed"}
    /\ stop_calls < MaxStops
    /\ stop_calls' = stop_calls + 1
    /\ LET r == stop(scheduler_running, report_queue_task)
       IN  /\ scheduler_running' = r.running
           /\ report_queue_task' = r.task
           /\ session_closed' = (session_closed \/ r.closed)
           /\ stop_error' = r.error
    /\ UNCHANGED <<identity, registry, pending_reports, w_payload, running_ticks, on_event,
                   runVars, pollVars, reg_resp, job_error, sent, last_exchange, logVars,
                   negVars, svcVars, add_result>>

\* ------------------------------------------------------------- EventService
\* what an application handler of the VTN can return: None, one event as a dict
\* or as an objects.Event, a list of events, or a value of another type
EventLike == {[kind |-> k, event_id |-> e] : k \in {"dict", "Event"}, e \in {"e1", "e2"}}

HandlerResults ==
    {[kind |-> "None"], [kind |-> "str"], [kind |-> "int"], [kind |-> "tuple"]}
    \cup {[kind |-> "one", event |-> e] : e \in EventLike}
    \cup {[kind |-> "list", events |-> es] : es \in SeqsUpTo(EventLike, MaxEvents)}

\* the messages the service handles: the handler the application registered
\* ("default": none, the placeholder of the class is what the name gives) and
\* what that handler returns, at once ("sync") or as a coroutine ("async")
ServiceRequests ==
    {[type |-> "oadrRequestEvent", handler |-> "default", result |-> [kind |-> "None"]],
     [type |-> "oadrCreatedEvent", handler |-> "default", result |-> [kind |-> "None"]]}
    \cup {[type |-> "oadrRequestEvent", handler |-> h, result |-> r] :
              h \in {"sync", "async"}, r \in HandlerResults}
    \cup {[type |-> "oadrCreatedEvent", handler |-> h, result |-> r] :
              h \in {"sync", "async"}, r \in {[kind |-> "None"], [kind |-> "str"]}}

Raised(err) == [raised |-> err, type |-> None, events |-> <<>>, result |-> [kind |-> "None"]]

Distribute(events) ==
    [raised |-> None, type |-> "oadrDistributeEvent", events |-> events,
     result |-> [kind |-> "None"]]

\* request_event answering a result of another type with an empty event list
request_eventLenient(handler, result) ==
    IF handler = "default" THEN Raised("NameError")
    ELSE IF result.kind = "one" THEN Distribute(<<result.event>>)
    ELSE IF result.kind = "list" THEN Distribute(result.events)
    ELSE Distribute(<<>>)

\* request_event(payload): the placeholder on_request_event names logger, which
\* the module does not define; the result of a registered handler (awaited when
\* it is a coroutine) becomes the event list of the reply
request_event(handler, result) ==
    IF handler = "default" THEN Raised("NameError")
    ELSE IF result.kind = "None" THEN Distribute(<<>>)
    ELSE IF result.kind = "one" THEN Distribute(<<result.event>>)
    ELSE IF result.kind = "list" THEN Distribute(result.events)
    ELSE Raised("TypeError")

\* created_event(payload): calls self.on_created_event, which exists only when
\* the application has set it (the placeholder of the class is on_create_event),
\* and returns its result, awaited when it is a coroutine
created_event(handler, result) ==
    IF handler = "default" THEN Raised("AttributeError")
    ELSE [raised |-> None, type |-> None, events |-> <<>>, result |-> result]

\* the service handles an oadrRequestEvent message
RequestEvent ==
    /\ svc_req # Nothing
    /\ svc_reply = Nothing
    /\ svc_req[1].type = "oadrRequestEvent"
    /\ svc_reply' = Some(request_event(svc_req[1].handler, svc_req[1].result))
    /\ UNCHANGED <<identity, registry, queueVars, scheduler_running, on_event, runVars,
                   pollVars, reg_resp, job_error, sent, last_exchange, logVars, negVars,
                   stopVars, svc_req, add_result>>

\* the service handles an oadrCreatedEvent message
CreatedEvent ==
    /\ svc_req # Nothing
    /\ svc_reply = Nothing
    /\ svc_req[1].type = "oadrCreatedEvent"
    /\ svc_reply' = Some(created_event(svc_req[1].handler, svc_req[1].result))
    /\ UNCHANGED <<identity, registry, queueVars, scheduler_running, on_event, runVars,
                   pollVars, reg_resp, job_error, sent, last_exchange, logVars, negVars,
                   stopVars, svc_req, add_result>>

\* ------------------------------------------------------------- the session
NoExchange == [op |-> None, outcome |-> None, raised |-> None, response_type |-> None,
               n |-> 0]

\* the client after __init__ and the add_report calls of the application
InitCommon ==
    /\ ven_id = None
    /\ poll_frequency = Nothing
    /\ report_requests = <<>>
    /\ pending_reports = <<>>
    /\ jobs = <<>>
    /\ scheduler_running = FALSE
    /\ report_queue_task = None
    /\ run_pc = "init"
    /\ run_error = None
    /\ poll_pc = "idle"
    /\ depth = 0
    /\ poll_resp = Nothing
    /\ handler_result = Nothing
    /\ reg_resp = Nothing
    /\ drainPolls = 0
    /\ job_error = None
    /\ w_payload = Nothing
    /\ running_ticks = {}
    /\ sent = [t \in MsgTypes |-> 0]
    /\ last_exchange = NoExchange
    /\ pollHist = <<>>
    /\ handlerCalls = 0
    /\ acks = <<>>
    /\ ticks = 0
    /\ enqLog = <<>>
    /\ sentLog = <<>>
    /\ cancel_calls = 0
    /\ session_closed = FALSE
    /\ stop_calls = 0
    /\ stop_error = None

\* the session of the protocol: run(), the registration, the poll loop and the
\* event handling, with every reply of the VTN; no report job comes due
Init ==
    /\ InitCommon
    /\ reports \in {<<>>, ReportsA}
    /\ on_event \in {"none", "sync", "async"}
    /\ neg_req = Nothing
    /\ neg_result = "unused"
    /\ add_result = "unused"
    /\ svc_req = Nothing
    /\ svc_reply = Nothing

Next ==
    \/ RunStart
    \/ \E o \in Outcomes, reply \in RegReplies : RunRegistered(o, reply)
    \/ \E o \in Outcomes, reply \in RegisterReportReplies : RunReportsRegistered(o, reply)
    \/ \E o \in Outcomes, reply \in PollReplies, result \in OptTypes :
          PollReply(o, reply, result)
    \/ \E result \in OptTypes : HandlerDone(result)
    \/ \E o \in Outcomes, reply \in AckReplies : AckReply(o, reply)
    \/ \E o \in Outcomes, reply \in RegReplies : ReregReply(o, reply)
    \/ PollTick

Spec == Init /\ [][Next]_vars

\* the session of the reports: run() with a VTN that registers the VEN, asks for
\* reports and has an event or nothing for a poll; the report jobs come due and
\* the queue worker delivers, with every outcome of every exchange; the
\* recurring poll job does not come due
InitDeliver ==
    /\ InitCommon
    /\ reports = ReportsA
    /\ on_event = "sync"
    /\ neg_req = Nothing
    /\ neg_result = "unused"
    /\ add_result = "unused"
    /\ svc_req = Nothing
    /\ svc_reply = Nothing

NextDeliver ==
    \/ RunStart
    \/ \E o \in Outcomes, reply \in DeliverRegReplies : RunRegistered(o, reply)
    \/ \E o \in Outcomes, reply \in DeliverRegisterReportReplies :
          RunReportsRegistered(o, reply)
    \/ \E o \in Outcomes, reply \in DeliverPollReplies : PollReply(o, reply, "optIn")
    \/ \E o \in Outcomes, reply \in AckReplies : AckReply(o, reply)
    \/ \E j \in 1..Len(jobs), failing \in 0..MaxPayloads : TickStart(j, failing)
    \/ \E t \in running_ticks : TickPut(t)
    \/ WorkerGet
    \/ \E o \in Outcomes, reply \in UpdateReplies, resumes \in BOOLEAN :
          WorkerReply(o, reply, resumes)

SpecDeliver == InitDeliver /\ [][NextDeliver]_vars

\* the same session with the queue worker scheduled fairly: the event loop
\* resumes the worker when the queue has a report for it, and every exchange
\* of the worker ends, with some outcome
SpecDeliverFair ==
    /\ InitDeliver
    /\ [][NextDeliver]_vars
    /\ WF_vars(WorkerGet)
    /\ WF_vars(\E o \in Outcomes, reply \in UpdateReplies, resumes \in BOOLEAN :
                   WorkerReply(o, reply, resumes))

\* ------------------------------------------------------------- registration and delivery
\* a session whose VTN asks for a new registration in the first polls and
\* registers the VEN under either id, and whose report jobs and queue worker
\* run after them
FramePollReplies ==
    {r \in PollReplies : r.type \in {"oadrResponse", "oadrRequestReregistration"}}

FrameRegReplies ==
    {r \in RegReplies : r.payload.requested_oadr_poll_freq \in {Nothing, Some(90000)}}

\* the VTN asks for one report or for none when the reports are registered
FrameRegisterReportReplies ==
    {RegisteredReport(rs) : rs \in SeqsUpTo(SessionRequests, 1)}

NextFrame ==
    \/ RunStart
    \/ \E o \in Outcomes, reply \in FrameRegReplies : RunRegistered(o, reply)
    \/ \E o \in Outcomes, reply \in FrameRegisterReportReplies :
          RunReportsRegistered(o, reply)
    \/ \E o \in Outcomes, reply \in FramePollReplies : PollReply(o, reply, "optIn")
    \/ \E o \in Outcomes, reply \in FrameRegReplies : ReregReply(o, reply)
    \/ \E j \in 1..Len(jobs), failing \in 0..MaxPayloads : TickStart(j, failing)
    \/ \E t \in running_ticks : TickPut(t)
    \/ WorkerGet
    \/ \E o \in Outcomes, reply \in UpdateReplies, resumes \in BOOLEAN :
          WorkerReply(o, reply, resumes)

SpecFrame == InitDeliver /\ [][NextFrame]_vars

\* ------------------------------------------------------------- negotiation alone
\* create_report called with one report request on a client that holds one of
\* two sets of report definitions
InitNeg ==
    /\ InitCommon
    /\ reports \in {ReportsA, ReportsB}
    /\ on_event = "none"
    /\ neg_req \in {Some(r) : r \in NegRequests}
    /\ neg_result = "pending"
    /\ add_result = "unused"
    /\ svc_req = Nothing
    /\ svc_reply = Nothing

CreateReportCall ==
    /\ neg_result = "pending"
    /\ add_result = "unused"
    /\ svc_req = Nothing
    /\ svc_reply = Nothing
    /\ LET r == create_report([reports |-> reports, report_requests |-> report_requests,
                               jobs |-> jobs], neg_req[1])
       IN  /\ report_requests' = r.st.report_requests
           /\ jobs' = r.st.jobs
           /\ neg_result' = r.result
    /\ UNCHANGED <<identity, reports, queueVars, scheduler_running, on_event, runVars,
                   pollVars, reg_resp, job_error, sent, last_exchange, logVars, neg_req,
                   stopVars, svcVars, add_result>>

NextNeg == CreateReportCall

SpecNeg == InitNeg /\ [][NextNeg]_vars

\* ------------------------------------------------------------- the session with stop
\* the session of the reports, which the application ends with stop(), called
\* once or more, before run() or after it; nothing runs after the first stop()
NextStop ==
    \/ stop_calls = 0 /\ NextDeliver
    \/ Stop

SpecStop == InitDeliver /\ [][NextStop]_vars

\* ------------------------------------------------------------- negotiations in a row
\* the report requests the VTN sends one after the other
SeqRequests ==
    {Request(id, sid, g, iv, ps) :
        id \in {"rr1", "rr2"}, sid \in {"S1", "S9"}, g \in {Nothing, Some(45)},
        iv \in BOOLEAN,
        ps \in {<<SpecifierPayload("R1", Nothing)>>,
                <<SpecifierPayload("R1", Nothing), SpecifierPayload("R2", Nothing)>>}}

InitSeq ==
    /\ InitCommon
    /\ reports = ReportsA
    /\ on_event = "none"
    /\ neg_req = Nothing
    /\ neg_result = "unused"
    /\ add_result = "unused"
    /\ svc_req = Nothing
    /\ svc_reply = Nothing

\* create_report is called with one more report request of the VTN
NegotiateReport(report_request) ==
    /\ Len(report_requests) < MaxRequests
    /\ LET r == create_report([reports |-> reports, report_requests |-> report_requests,
                               jobs |-> jobs], report_request)
       IN  /\ report_requests' = r.st.report_requests
           /\ jobs' = r.st.jobs
           /\ neg_result' = r.result
    /\ neg_req' = Some(report_request)
    /\ UNCHANGED <<identity, reports, queueVars, scheduler_running, on_event, runVars,
                   pollVars, reg_resp, job_error, sent, last_exchange, logVars,
                   stopVars, svcVars, add_result>>

NextSeq == \E r \in SeqRequests : NegotiateReport(r)

SpecSeq == InitSeq /\ [][NextSeq]_vars

\* ------------------------------------------------------------- the report definitions
\* the application defines its reports on a new client
InitDefine ==
    /\ InitCommon
    /\ reports = <<>>
    /\ on_event = "none"
    /\ neg_req = Nothing
    /\ neg_result = "unused"
    /\ add_result = "unused"
    /\ svc_req = Nothing
    /\ svc_reply = Nothing

NextDefine ==
    \E valid \in BOOLEAN, id \in SpecifierArgs, m \in MeasurementArgs,
       rate \in SamplingRateArgs : AddReport(valid, id, m, rate)

SpecDefine == InitDefine /\ [][NextDefine]_vars

\* ------------------------------------------------------------- the VTN event service
\* one message for the event service of the VTN
InitSvc ==
    /\ InitCommon
    /\ reports = <<>>
    /\ on_event = "none"
    /\ neg_req = Nothing
    /\ neg_result = "unused"
    /\ add_result = "unused"
    /\ svc_req \in {Some(r) : r \in ServiceRequests}
    /\ svc_reply = Nothing

NextSvc == RequestEvent \/ CreatedEvent

SpecSvc == InitSvc /\ [][NextSvc]_vars

\* ------------------------------------------------------------- the claims
\* a registration exchange ended in this state with a reply the client takes
\* for a registration
RegistrationAccepted ==
    /\ last_exchange.op = "register"
    /\ last_exchange.raised = None
    /\ last_exchange.response_type # None
    /\ reg_resp[1].response_payload.response_code = OK

\* the first registration exchange of run() ended with a reply whose embedded
\* code is not 200, or with no reply (a status other than 200, no connection)
FirstRegistrationRejected ==
    /\ last_exchange.n = 1
    /\ last_exchange.op = "register"
    /\ last_exchange.raised = None
    /\ ~RegistrationAccepted

\* C1: when the first registration of run() is rejected or unanswered, ven_id
\* stays unset, no error is raised, and run() has returned with no poll sent,
\* no report registered, no queue worker started and no job scheduled.
C1_RejectedRegistrationAborts ==
    FirstRegistrationRejected =>
        /\ ven_id = None
        /\ poll_frequency = Nothing
        /\ run_pc = "aborted"
        /\ run_error = None
        /\ poll_pc = "idle"
        /\ sent["oadrPoll"] = 0
        /\ sent["oadrRegisterReport"] = 0
        /\ report_queue_task = None
        /\ jobs = <<>>
        /\ ~scheduler_running

\* a client with report definitions whose first registration got code 403
C1_Witness ==
    /\ FirstRegistrationRejected
    /\ last_exchange.response_type # None
    /\ reports # <<>>
    /\ run_pc = "aborted"

\* C2: every step leaves (ven_id, poll_frequency) as it was, except the step
\* that ends a registration exchange with an accepted reply, which sets both
\* from that reply, the poll frequency to 10 s when the reply offers none.
C2_IdentityStep ==
    IF last_exchange'.n # last_exchange.n /\ RegistrationAccepted'
    THEN /\ ven_id' = reg_resp'[1].response_payload.ven_id
         /\ poll_frequency' =
               IF reg_resp'[1].response_payload.requested_oadr_poll_freq = Nothing
               THEN Some(DefaultPollFreq)
               ELSE reg_resp'[1].response_payload.requested_oadr_poll_freq
    ELSE UNCHANGED <<ven_id, poll_frequency>>

\* C2: in every step of every session ven_id and poll_frequency change
\* together, from an accepted registration reply, or not at all.
C2_IdentityAtomic == [][C2_IdentityStep]_vars

\* a re-registration asked for by a poll reply replaced both the id and the
\* poll frequency of the registration before
C2_Witness ==
    /\ RegistrationAccepted
    /\ sent["oadrCreatePartyRegistration"] = 2
    /\ last_exchange.n = 3
    /\ ven_id = "ven2"
    /\ poll_frequency = Some(90000)
    /\ poll_pc = "poll_wait"

\* C3: a drain whose polls were answered with oadrDistributeEvent and then
\* oadrResponse called on_event once, made two poll exchanges and is over: no
\* _poll is left waiting or running.
C3_EventThenNoContent ==
    pollHist = <<"oadrDistributeEvent", "oadrResponse">> =>
        /\ handlerCalls = 1
        /\ drainPolls = 2
        /\ Len(acks) = 1
        /\ poll_pc = "idle"
        /\ depth = 0

C3_Witness ==
    /\ pollHist = <<"oadrDistributeEvent", "oadrResponse">>
    /\ handlerCalls = 1
    /\ drainPolls = 2
    /\ poll_pc = "idle"

\* the reports of a log that belong to report request id
OfRequest(log, id) ==
    LET Belongs(r) == r.report_request_id = id IN SelectSeq(log, Belongs)

IsPrefix(a, b) == Len(a) <= Len(b) /\ SubSeq(b, 1, Len(a)) = a

\* C4: the reports of one report request reach the transport in the order in
\* which update_report put them on the queue: what was sent for a request is
\* a prefix of what was put for it.
C4_DeliveryInOrder ==
    \A id \in {"rr1", "rr2"} : IsPrefix(OfRequest(sentLog, id), OfRequest(enqLog, id))

\* two reports of one request were sent, with the report of another request
\* put on the queue between them
C4_Witness ==
    /\ Len(sentLog) = 3
    /\ sentLog[1].report_request_id = "rr1"
    /\ sentLog[2].report_request_id = "rr2"
    /\ sentLog[3].report_request_id = "rr1"
    /\ sentLog[1].created < sentLog[3].created

\* the r_ids create_report accepted for the request it was called with
Accepted ==
    IF neg_result = "None"
    THEN {report_requests[Len(report_requests)].r_ids[i] :
             i \in 1..Len(report_requests[Len(report_requests)].r_ids)}
    ELSE {}

\* C5: create_report, for a request that names a granularity g and a defined
\* report, accepts a requested r_id that has a descriptor and no measurement
\* mismatch if and only if g lies in the sampling-rate range of the descriptor.
C5_AcceptedIffInRange ==
    LET specifier == neg_req[1].report_specifier
        n == find_by_specifier(reports, specifier.report_specifier_id)
    IN  (neg_result # "pending" /\ specifier.granularity # Nothing /\ n > 0) =>
          \A i \in 1..Len(specifier.specifier_payloads) :
            LET sp == specifier.specifier_payloads[i]
                k  == find_by_r_id(reports[n].report_descriptions, sp.r_id)
                rd == reports[n].report_descriptions[k]
            IN  (/\ k > 0
                 /\ \/ sp.measurement = Nothing
                    \/ /\ sp.measurement[1].item_description = rd.item_description
                       /\ sp.measurement[1].item_units = rd.item_units)
                => ((sp.r_id \in Accepted) <=>
                       (rd.min_period <= specifier.granularity[1]
                        /\ specifier.granularity[1] <= rd.max_period))

\* C6: the step that ends an exchange with a status other than 200 or without
\* a connection raises nothing (run() does not fail, no job run and no worker
\* ends with an error) and leaves ven_id, poll_frequency and the report
\* requests as they were.
C6_UnreachableStep ==
    (last_exchange'.n # last_exchange.n /\ last_exchange'.outcome \in Unreachable) =>
        /\ last_exchange'.raised = None
        /\ last_exchange'.response_type = None
        /\ run_pc' = "failed" => run_pc = "failed"
        /\ run_error' = run_error
        /\ job_error' \in {None, job_error}
        /\ report_queue_task' = "failed" => report_queue_task = "failed"
        /\ UNCHANGED <<ven_id, poll_frequency, report_requests>>

\* C6: no exchange of a session (poll, registration, report registration,
\* created-event, report delivery) that ends unreachable raises an error or
\* changes ven_id, poll_frequency or the report requests.
C6_UnreachableNotRaised == [][C6_UnreachableStep]_vars

\* a report delivery ended without a connection and the worker waits for the
\* next report, after a registration of reports that ended the same way
C6_Witness ==
    /\ last_exchange.op = "update_report"
    /\ last_exchange.outcome \in Unreachable
    /\ report_queue_task = "waiting"
    /\ sentLog # <<>>
    /\ ven_id # None

\* C7: a reply that cannot be parsed or verified makes _perform_request raise,
\* and the error reaches run() or the job that made the exchange; a status
\* other than 200 and a failed connection give (None, {}) and raise nothing.
C7_MalformedRaises ==
    /\ last_exchange.outcome = "malformed" =>
          /\ last_exchange.raised = "ParseError"
          /\ (run_error = "ParseError" \/ job_error = "ParseError")
    /\ last_exchange.outcome \in Unreachable =>
          /\ last_exchange.raised = None
          /\ last_exchange.response_type = None

\* the reply to a poll of the recurring job could not be parsed
C7_Witness ==
    /\ last_exchange.outcome = "malformed"
    /\ last_exchange.op = "poll"
    /\ run_pc = "done"
    /\ job_error = "ParseError"

KnownTypes == {"oadrResponse", "oadrRequestReregistration", "oadrDistributeEvent",
               "oadrUpdateReport"}

\* C8: the step _poll makes on a reply of a type it does not know raises
\* nothing, leaves ven_id, poll_frequency, the report requests and the queue
\* as they were, and sends the next poll.
C8_UnknownTypeStep ==
    (/\ last_exchange'.n # last_exchange.n
     /\ last_exchange'.op = "poll"
     /\ last_exchange'.raised = None
     /\ last_exchange'.response_type \notin KnownTypes \cup {None}) =>
        /\ run_pc' = run_pc
        /\ run_error' = run_error
        /\ job_error' = job_error
        /\ UNCHANGED <<ven_id, poll_frequency, report_requests, pending_reports>>
        /\ poll_pc' = "poll_wait"
        /\ depth' = depth + 1
        /\ sent'["oadrPoll"] = sent["oadrPoll"] + 1

\* C8: no poll reply of an unknown type makes the poll loop fail or change
\* the session; the loop polls again.
C8_UnknownTypeIgnored == [][C8_UnknownTypeStep]_vars

\* a poll loop that got a reply of an unknown type and waits for the reply to
\* its next poll
C8_Witness ==
    /\ poll_resp # Nothing
    /\ poll_resp[1].response_type = "oadrCancelReport"
    /\ poll_pc = "poll_wait"
    /\ depth = 2
    /\ run_error = None

\* C9: after a poll reply of type oadrUpdateReport no error is raised and the
\* poll loop waits for the reply to its next poll.
C9_ReportUpdateHandled ==
    (last_exchange.op = "poll" /\ last_exchange.response_type = "oadrUpdateReport") =>
        /\ run_error = None
        /\ job_error = None
        /\ poll_pc = "poll_wait"

\* C10: once the handler of the application has returned for an
\* oadrDistributeEvent reply, one oadrCreatedEvent has been sent for each such
\* reply of the drain, the last with the request id of the reply, the id of
\* its event and the opt type the handler returned; the next poll is sent only
\* when that exchange has ended.
C10_EventAcknowledged ==
    (/\ on_event # "none"
     /\ poll_resp # Nothing
     /\ poll_resp[1].response_type = "oadrDistributeEvent"
     /\ poll_pc # "handler_wait") =>
        /\ handler_result # Nothing
        /\ Len(acks) = Len(SelectSeq(pollHist, LAMBDA t : t = "oadrDistributeEvent"))
        /\ poll_resp[1].response_payload.events # <<>>
        /\ acks[Len(acks)] = [request_id |-> poll_resp[1].response_payload.request_id,
                              event_id |-> poll_resp[1].response_payload.events[1],
                              opt_type |-> handler_result[1]]
        /\ poll_pc = "poll_wait" => last_exchange.op = "created_event"

\* C11: an oadrDistributeEvent reply on a client whose application registered
\* no on_event handler raises nothing: neither run() nor the poll job fails.
C11_NoHandlerNeverFails ==
    (/\ on_event = "none"
     /\ poll_resp # Nothing
     /\ poll_resp[1].response_type = "oadrDistributeEvent") =>
        /\ run_error = None
        /\ job_error = None

\* what stop() leaves, in the state after a call
Stopped ==
    /\ stop_error = None
    /\ ~scheduler_running
    /\ report_queue_task \notin {"waiting", "sending"}
    /\ session_closed

C12_StopStep ==
    stop_calls' # stop_calls =>
        /\ Stopped'
        /\ stop_calls >= 1 =>
              UNCHANGED <<scheduler_running, report_queue_task, session_closed, stop_error,
                          jobs, pending_reports, ven_id>>

\* C12: every call of stop(), before run(), after a run() that aborted or
\* failed, or after a run() that started the scheduler and the worker, raises
\* nothing and leaves the scheduler not running, the worker not running and the
\* session closed; a call after the first changes nothing.
C12_StopIdempotent == [][C12_StopStep]_vars

\* a second stop() after a run() that scheduled jobs and started the worker
C12_Witness ==
    /\ stop_calls = 2
    /\ run_pc = "done"
    /\ report_queue_task = "cancelled"
    /\ jobs # <<>>
    /\ Stopped

\* C13: create_report called with a request for a report_specifier_id the
\* client has no report for returns False: no report request is added, no job
\* is added and nothing is raised.
C13_UnknownSpecifierRejected ==
    (/\ neg_req # Nothing
     /\ neg_result # "pending"
     /\ \A i \in 1..Len(reports) :
           reports[i].report_specifier_id # neg_req[1].report_specifier.report_specifier_id) =>
        /\ neg_result = "False"
        /\ report_requests = <<>>
        /\ jobs = <<>>

\* a request for report S9 with two specifier payloads was rejected
C13_Witness ==
    /\ neg_req # Nothing
    /\ neg_req[1].report_specifier.report_specifier_id = "S9"
    /\ Len(neg_req[1].report_specifier.specifier_payloads) = 2
    /\ neg_result = "False"

\* specifier payload sp of a request with granularity g is one create_report
\* skips for report: no such r_id, another measurement, or g out of range
Skipped(report, g, sp) ==
    \A k \in 1..Len(report.report_descriptions) :
        LET rd == report.report_descriptions[k]
        IN  rd.r_id = sp.r_id =>
              \/ /\ sp.measurement # Nothing
                 /\ \/ sp.measurement[1].item_description # rd.item_description
                    \/ sp.measurement[1].item_units # rd.item_units
              \/ /\ g # Nothing
                 /\ ~(rd.min_period <= g[1] /\ g[1] <= rd.max_period)

\* the call of create_report is over, for a report the client has, and every
\* specifier payload of the request is one it skips
AllSkipped ==
    /\ neg_req # Nothing
    /\ neg_result # "pending"
    /\ \E n \in 1..Len(reports) :
          /\ reports[n].report_specifier_id = neg_req[1].report_specifier.report_specifier_id
          /\ \A i \in 1..Len(neg_req[1].report_specifier.specifier_payloads) :
                Skipped(reports[n], neg_req[1].report_specifier.granularity,
                        neg_req[1].report_specifier.specifier_payloads[i])

OfOneTick(r) ==
    \E k \in 1..Len(report_requests), n \in 1..Len(reports) :
        /\ report_requests[k].report_request_id = r.report_request_id
        /\ reports[n].report_specifier_id = report_requests[k].report_specifier_id
        /\ r.report_specifier_id = reports[n].report_specifier_id
        /\ r.report_name = reports[n].report_name
        /\ Len(r.intervals) = Len(report_requests[k].r_ids)
        /\ \A i \in 1..Len(r.intervals) :
              r.intervals[i].r_id = report_requests[k].r_ids[i]

\* C15: every tick whose producers returned puts exactly one report on the
\* queue, made as OfOneTick says; a report the worker took for delivery is not
\* on the queue and is never put again: the reports put are, in order, those
\* taken for delivery and then those still queued, and no report is put twice.
C15_OneReportPerTick ==
    /\ enqLog = sentLog \o pending_reports
    /\ \A i \in 1..Len(enqLog) : OfOneTick(enqLog[i])
    /\ \A i, j \in 1..Len(enqLog) : enqLog[i] = enqLog[j] => i = j
    /\ Len(enqLog) + Cardinality(running_ticks) <= ticks
    /\ job_error = None => Len(enqLog) + Cardinality(running_ticks) = ticks

\* a report with two intervals was put, taken and delivered, and the queue is
\* empty
C15_Witness ==
    /\ Len(enqLog) = 1
    /\ Len(enqLog[1].intervals) = 2
    /\ sentLog = enqLog
    /\ pending_reports = <<>>
    /\ last_exchange.op = "update_report"
    /\ last_exchange.outcome = "ok"
    /\ report_queue_task = "waiting"

\* C16: every report description the client holds has a sampling rate with
\* min_period <= max_period, add_report having rejected every other.
C16_SamplingRateOrdered ==
    \A n \in 1..Len(reports) : \A k \in 1..Len(reports[n].report_descriptions) :
        reports[n].report_descriptions[k].min_period
            <= reports[n].report_descriptions[k].max_period

\* C17: request_event answers what a registered on_request_event handler
\* returned with oadrDistributeEvent: None with no event, one dict or Event
\* with that event alone, a list with the events of the list; for a result of
\* another type it raises TypeError and gives no reply.
C17_RequestEventMapping ==
    (/\ svc_reply # Nothing
     /\ svc_req[1].type = "oadrRequestEvent"
     /\ svc_req[1].handler # "default") =>
        LET result == svc_req[1].result
            reply  == svc_reply[1]
            events == IF result.kind = "None" THEN <<>>
                      ELSE IF result.kind = "one" THEN <<result.event>>
                      ELSE result.events
        IN  IF result.kind \in {"None", "one", "list"}
            THEN /\ reply.raised = None
                 /\ reply.type = "oadrDistributeEvent"
                 /\ reply.events = events
            ELSE /\ reply.raised = "TypeError"
                 /\ reply.type = None

\* a handler that returned a tuple got a TypeError
C17_Witness ==
    /\ svc_reply # Nothing
    /\ svc_req[1].type = "oadrRequestEvent"
    /\ svc_req[1].handler = "async"
    /\ svc_req[1].result.kind = "tuple"
    /\ svc_reply[1].raised = "TypeError"

\* the errors registration, report registration and the first _poll of run()
\* can end run() with
DrainErrors == {"ParseError", "Error", "AttributeError", "IndexError", "KeyError"}

C18_LongPollStep ==
    (/\ run_pc = "poll"
     /\ run_pc' # "poll"
     /\ run_error' \notin DrainErrors
     /\ poll_frequency # Nothing
     /\ poll_frequency[1] >= 86400) =>
        /\ run_pc' = "done"
        /\ run_error' = None
        /\ scheduler_running'
        /\ \E j \in 1..Len(jobs') :
              jobs'[j].kind = "poll" /\ jobs'[j].hour = "0" /\ jobs'[j].minute = "0"

\* C18: when the first _poll of run() has returned and the poll frequency of
\* the registration is 86400 s or more, run() ends without an error, with a poll
\* job that fires once a day added and the scheduler started.
C18_LongPollScheduled == [][C18_LongPollStep]_vars

\* C19: at most one invocation of _poll is unfinished at any time, however
\* many polls the drain has made.
C19_DepthBounded == depth <= 1

C20_DeliveredOnceStep ==
    /\ \A i, j \in 1..Len(sentLog') : sentLog'[i] = sentLog'[j] => i = j
    /\ (/\ last_exchange'.n # last_exchange.n
        /\ last_exchange'.op = "update_report"
        /\ last_exchange'.outcome \in Unreachable) =>
           /\ UNCHANGED <<pending_reports, enqLog, sentLog>>
           /\ report_queue_task' = "waiting"

\* C20: no report is handed to the transport twice; the step that ends a
\* delivery without reaching the VTN puts nothing on the queue and leaves the
\* worker waiting for the next report.
C20_DeliveredOnce == [][C20_DeliveredOnceStep]_vars

\* a delivery did not reach the VTN, the queue holds the next report and the
\* worker waits for it
C20_Witness ==
    /\ last_exchange.op = "update_report"
    /\ last_exchange.outcome = "non200"
    /\ report_queue_task = "waiting"
    /\ Len(sentLog) = 1
    /\ Len(pending_reports) = 1
    /\ pending_reports[1] # sentLog[1]

\* C21: when the reply to a report delivery could not be parsed or verified,
\* the worker has stopped with a failure: it does not wait for or send another
\* report.
C21_MalformedStopsWorker ==
    (last_exchange.op = "update_report" /\ last_exchange.outcome = "malformed") =>
        report_queue_task = "failed"

\* C22: create_report, for a request that names no granularity and no report
\* interval and a report the client has, accepts every requested r_id that
\* has a descriptor and no measurement mismatch, and takes the max_period of a
\* descriptor for the granularity of the report request.
C22_NoGranularityAcceptsAll ==
    LET specifier == neg_req[1].report_specifier
        n == find_by_specifier(reports, specifier.report_specifier_id)
    IN  (/\ neg_result # "pending"
         /\ specifier.granularity = Nothing
         /\ ~specifier.report_interval
         /\ n > 0) =>
          \A i \in 1..Len(specifier.specifier_payloads) :
            LET sp == specifier.specifier_payloads[i]
                k  == find_by_r_id(reports[n].report_descriptions, sp.r_id)
                rd == reports[n].report_descriptions[k]
            IN  (/\ k > 0
                 /\ \/ sp.measurement = Nothing
                    \/ /\ sp.measurement[1].item_description = rd.item_description
                       /\ sp.measurement[1].item_units = rd.item_units)
                => /\ sp.r_id \in Accepted
                   /\ \E d \in 1..Len(reports[n].report_descriptions) :
                         report_requests[Len(report_requests)].granularity
                             = Some(reports[n].report_descriptions[d].max_period)

\* specifier payload sp names no descriptor of report, or a measurement other
\* than that of its descriptor
Unmatched(report, sp) ==
    \A k \in 1..Len(report.report_descriptions) :
        LET rd == report.report_descriptions[k]
        IN  rd.r_id = sp.r_id =>
              /\ sp.measurement # Nothing
              /\ \/ sp.measurement[1].item_description # rd.item_description
                 \/ sp.measurement[1].item_units # rd.item_units

\* sequence q without its element i
Without(q, i) == SubSeq(q, 1, i - 1) \o SubSeq(q, i + 1, Len(q))

\* C23: a specifier payload that names no descriptor, or another measurement
\* than the descriptor has, adds nothing to the accepted r_ids, and create_report
\* does with the request what it does with the request without that payload:
\* the same result, the same report request (r_ids and granularity) and job.
C23_UnmatchedSkippedAlone ==
    LET request   == neg_req[1]
        specifier == request.report_specifier
        n         == find_by_specifier(reports, specifier.report_specifier_id)
        unmatched == {i \in 1..Len(specifier.specifier_payloads) :
                         Unmatched(reports[n], specifier.specifier_payloads[i])}
    IN  (neg_result # "pending" /\ n > 0) =>
          /\ neg_result = "None" =>
                Len(report_requests[1].r_ids)
                    <= Len(specifier.specifier_payloads) - Cardinality(unmatched)
          /\ \A i \in unmatched :
                LET rest == [request EXCEPT !.report_specifier.specifier_payloads =
                                               Without(@, i)]
                    alt  == create_report([reports |-> reports, report_requests |-> <<>>,
                                           jobs |-> <<>>], rest)
                IN  /\ alt.result = neg_result
                    /\ alt.st.report_requests = report_requests
                    /\ alt.st.jobs = jobs

\* R1 asked for with the units of another measurement and R2 without: R2 alone
\* was accepted
C23_Witness ==
    /\ neg_req # Nothing
    /\ neg_result = "None"
    /\ reports = ReportsA
    /\ neg_req[1].report_specifier.granularity = Some(45)
    /\ Len(neg_req[1].report_specifier.specifier_payloads) = 2
    /\ neg_req[1].report_specifier.specifier_payloads[1] =
          SpecifierPayload("R1", Some([item_description |-> "power", item_units |-> "kW"]))
    /\ neg_req[1].report_specifier.specifier_payloads[2] = SpecifierPayload("R2", Nothing)
    /\ report_requests[1].r_ids = <<"R2">>

\* the report request a report job drives: the one update_report finds for the
\* report_request_id of the job
Drives(j) == find_by_request_id(report_requests, jobs[j].report_request_id)

ReportJobs == {j \in 1..Len(jobs) : jobs[j].kind = "report"}

\* C24: every report request the client holds is driven by exactly one report
\* job, and no two report jobs drive the same report request.
C24_OneJobPerRequest ==
    /\ \A k \in 1..Len(report_requests) :
          Cardinality({j \in ReportJobs : Drives(j) = k}) = 1
    /\ \A i, j \in ReportJobs : Drives(i) = Drives(j) => i = j

\* C25: when the reply to the delivery of a report asked for its cancellation
\* and the worker is back at the queue, cancel_report has been called, the
\* report request of that report is gone and so is its job.
C25_CancelRemovesRequest ==
    (/\ last_exchange.op = "update_report"
     /\ last_exchange.outcome = "ok"
     /\ report_queue_task = "waiting"
     /\ w_payload # Nothing
     /\ "cancel_report" \in w_payload[1].keys) =>
        LET id == sentLog[Len(sentLog)].report_request_id
        IN  /\ cancel_calls > 0
            /\ \A k \in 1..Len(report_requests) : report_requests[k].report_request_id # id
            /\ \A j \in ReportJobs : jobs[j].report_request_id # id

C26_ProducerStep ==
    ticks' # ticks => \E t \in running_ticks' : t \notin running_ticks

\* C26: every tick of a report job, also one in which a producer raises, goes
\* on to put a report on the queue.
C26_ProducerFailureIsolated == [][C26_ProducerStep]_vars

\* a step of a report tick or of the queue worker
TickOrDelivery ==
    \/ ticks' # ticks
    \/ enqLog' # enqLog
    \/ sentLog' # sentLog
    \/ last_exchange'.n # last_exchange.n /\ last_exchange'.op = "update_report"

C27_FrameStep ==
    /\ TickOrDelivery =>
           /\ ven_id' = ven_id
           /\ poll_frequency' = poll_frequency
           /\ reports' = reports
           /\ report_requests' = report_requests
    /\ (ven_id' # ven_id \/ poll_frequency' # poll_frequency) =>
           last_exchange'.n # last_exchange.n /\ RegistrationAccepted'
    /\ ven_id # None => ven_id' # None

====
